---- MODULE Spec2Model ----
(***************************************************************************)
(* Model of 244Project.py: the AI-assisted travel planner wizard.          *)
(*                                                                         *)
(* Text is modelled as a sequence of one-character strings (user input,    *)
(* city names, IATA codes) so that strip(), upper(), isupper() and title() *)
(* are computed, not assumed.  A text returned by the LLM is a sequence of *)
(* tokens (whitespace, backtick, word, JSON value) so that the fence       *)
(* stripping and the JSON parse of get_gpt_hotels are computed as well.    *)
(***************************************************************************)
EXTENDS Integers, Sequences, FiniteSets, TLC

(***************************************************************************)
(* Bounds of the model.                                                    *)
(***************************************************************************)
\* itineraries in one flight offer
MaxItins == 2
\* segments in one itinerary
MaxSegs == 2
\* longest JSON array the LLM answers with
MaxArr == 6

(***************************************************************************)
(* Characters and strings.                                                 *)
(***************************************************************************)
LowerCase == <<"a","b","c","d","e","f","g","h","i","j","k","l","m",
               "n","o","p","q","r","s","t","u","v","w","x","y","z">>
UpperCase == <<"A","B","C","D","E","F","G","H","I","J","K","L","M",
               "N","O","P","Q","R","S","T","U","V","W","X","Y","Z">>
Digits == <<"0","1","2","3","4","5","6","7","8","9">>

Range(s) == {s[i] : i \in DOMAIN s}

IsLower(c) == c \in Range(LowerCase)
IsUpper(c) == c \in Range(UpperCase)
IsLetter(c) == IsLower(c) \/ IsUpper(c)

IndexIn(c, s) == CHOOSE i \in DOMAIN s : s[i] = c

\* str.upper() on one character
UpperChar(c) == IF IsLower(c) THEN UpperCase[IndexIn(c, LowerCase)] ELSE c
\* str.lower() on one character
LowerChar(c) == IF IsUpper(c) THEN LowerCase[IndexIn(c, UpperCase)] ELSE c

\* str.upper()
Upper(s) == [i \in DOMAIN s |-> UpperChar(s[i])]

\* str.isupper(): no lower-case character and at least one cased character
IsUpperStr(s) ==
    /\ \A i \in DOMAIN s : ~IsLower(s[i])
    /\ \E i \in DOMAIN s : IsUpper(s[i])

\* str.title(): a letter is upper-cased when it starts a run of letters,
\* lower-cased otherwise
Title(s) ==
    [i \in DOMAIN s |->
        IF ~IsLetter(s[i]) THEN s[i]
        ELSE IF i = 1 \/ ~IsLetter(s[i - 1]) THEN UpperChar(s[i])
        ELSE LowerChar(s[i])]

\* str.replace(" ", "")
RemoveSpaces(s) == SelectSeq(s, LAMBDA c : c # " ")

RECURSIVE LStrip(_)
LStrip(s) == IF s # <<>> /\ Head(s) = " " THEN LStrip(Tail(s)) ELSE s

RECURSIVE RStrip(_)
RStrip(s) ==
    IF s # <<>> /\ s[Len(s)] = " " THEN RStrip(SubSeq(s, 1, Len(s) - 1)) ELSE s

\* str.strip() of a user-entered text
Strip(s) == RStrip(LStrip(s))

(***************************************************************************)
(* Airport Code Resolver: fix_city_case, iata_to_city_name.                *)
(***************************************************************************)
ORD == <<"O","R","D">>
SAN == <<"S","A","N">>
LAS == <<"L","A","S">>
JFK == <<"J","F","K">>

\* airportsdata.load("IATA"): keyed by upper-case code.  SAN carries an
\* upper-case city, LAS an empty city and a name, JFK an empty city and no
\* name; every other code has no record.
airports_db ==
    (ORD :> [city |-> <<"C","h","i","c","a","g","o">>,
             name |-> <<"O","H","a","r","e">>]) @@
    (SAN :> [city |-> <<"S","A","N"," ","D","I","E","G","O">>,
             name |-> <<"S","a","n"," ","I","n","t","l">>]) @@
    (LAS :> [city |-> <<>>, name |-> <<"m","c","c","a","r","r","a","n">>]) @@
    (JFK :> [city |-> <<>>])

fix_city_case(city_name) ==
    IF IsUpperStr(RemoveSpaces(city_name)) THEN Title(city_name) ELSE city_name

\* line 42: record.get('city') or record.get('name', code_upper)
CityOf(record, code_upper) ==
    IF record.city # <<>> THEN record.city
    ELSE IF "name" \in DOMAIN record THEN record.name
    ELSE code_upper

\* airports_db.get(code_upper) and the choice of city, lines 39-44
LookupCity(code_upper) ==
    IF code_upper \in DOMAIN airports_db
    THEN CityOf(airports_db[code_upper], code_upper)
    ELSE code_upper

\* a cache keyed by the code as given
CacheKeyAsGiven(iata_code) == iata_code

\* The key under which iata_to_city_name caches a code
CacheKey(iata_code) == Upper(iata_code)

\* The resolver's process-wide state: the cache, and two records of its
\* use: how often the dataset was consulted per upper-cased code, and the
\* values returned per upper-cased code.
EmptyResolver == [cache |-> << >>, gets |-> << >>, rets |-> << >>]

Bump(f, k) == IF k \in DOMAIN f THEN [f EXCEPT ![k] = @ + 1] ELSE f @@ (k :> 1)
Note(f, k, v) ==
    IF k \in DOMAIN f THEN [f EXCEPT ![k] = @ \cup {v}] ELSE f @@ (k :> {v})

\* lines 36-37: the code is in the cache
CacheHit(code_upper, key, r) ==
    [ret |-> r.cache[key],
     res |-> [r EXCEPT !.rets = Note(r.rets, code_upper, r.cache[key])]]

\* lines 46-48: the city found is cached and returned
CacheMiss(code_upper, key, final_city, r) ==
    [ret |-> final_city,
     res |-> [cache |-> r.cache @@ (key :> final_city),
              gets |-> Bump(r.gets, code_upper),
              rets |-> Note(r.rets, code_upper, final_city)]]

\* iata_to_city_name(iata_code) run on resolver state r: the value returned
\* and the resolver state afterwards
iata_to_city_name(iata_code, r) ==
    IF CacheKey(iata_code) \in DOMAIN r.cache
    THEN CacheHit(Upper(iata_code), CacheKey(iata_code), r)
    ELSE CacheMiss(Upper(iata_code), CacheKey(iata_code),
                   fix_city_case(LookupCity(Upper(iata_code))), r)

(***************************************************************************)
(* Flight Lookup: get_flights, parse_single_flight_offer.                  *)
(***************************************************************************)
\* The codes and timestamps the flight service puts in the k-th segment of
\* an offer whose first airport is Route[first].  Codes come in either case
\* and include one without a record.
Route == <<ORD, SAN, <<"o","r","d">>, LAS, <<"s","a","n">>, JFK, <<"X","Q","Z">>>>
CodeAt(k) == Route[((k - 1) % Len(Route)) + 1]
DepAt(k) == [y |-> 2024, m |-> 6, d |-> 1 + (k % 28), H |-> (7 * k) % 24, M |-> 5]
ArrAt(k) == [y |-> 2024, m |-> 6, d |-> 1 + (k % 28), H |-> ((7 * k) + 5) % 24, M |-> 40]

\* Segment counts per itinerary of the offers the service answers with
OfferShapes == UNION {[1..n -> 0..MaxSegs] : n \in 0..MaxItins}
\* First airports of the offers the service answers with
OfferStarts == {1, 4, 6}

RECURSIVE SumTo(_, _)
SumTo(shape, i) == IF i = 0 THEN 0 ELSE shape[i] + SumTo(shape, i - 1)

SegmentAt(k) ==
    [departure |-> [iataCode |-> CodeAt(k), at |-> DepAt(k)],
     arrival |-> [iataCode |-> CodeAt(k + 1), at |-> ArrAt(k)]]

OfferOf(shape, first) ==
    [price |-> [total |-> <<"4","2","0",".","1","0">>],
     itineraries |->
        [i \in DOMAIN shape |->
            [segments |->
                [j \in 1..shape[i] |->
                    SegmentAt((first - 1) + SumTo(shape, i - 1) + j)]]]]

\* What amadeus.shopping.flight_offers_search.get does: raise ResponseError,
\* or answer with no offer or with the one offer asked for (max=1)
FlightError == [status |-> "error", data |-> <<>>]
FlightNone == [status |-> "ok", data |-> <<>>]
FlightResponses ==
    {FlightError, FlightNone}
    \cup {[status |-> "ok", data |-> <<OfferOf(sh, first)>>] :
            sh \in OfferShapes, first \in OfferStarts}

get_flights(response) == IF response.status = "error" THEN <<>> ELSE response.data

MonthNames == <<"January", "February", "March", "April", "May", "June", "July",
                "August", "September", "October", "November", "December">>

TwoDigits(n) == <<Digits[((n \div 10) % 10) + 1], Digits[(n % 10) + 1]>>
FourDigits(n) == TwoDigits(n \div 100) \o TwoDigits(n % 100)

\* strftime("%B %d, %Y")
FormatDate(dt) ==
    <<MonthNames[dt.m], " ">> \o TwoDigits(dt.d) \o <<",", " ">> \o FourDigits(dt.y)

\* strftime("%I:%M %p")
FormatTime(dt) ==
    TwoDigits(IF dt.H % 12 = 0 THEN 12 ELSE dt.H % 12) \o <<":">>
        \o TwoDigits(dt.M) \o <<" ", IF dt.H < 12 THEN "AM" ELSE "PM">>

\* One line of a formatted text
Line(tag, num, str) == [tag |-> tag, num |-> num, str |-> str]

NoFlightOffers == <<Line("No flight offers found for these dates.", 0, <<>>)>>

\* a counter that starts again at every itinerary
CounterResetPerItinerary(segment_counter) == 1

\* The value segment_counter has when the loop enters the next itinerary
CounterAtItinerary(segment_counter) == segment_counter

\* lines 148-155: the lines appended for one segment, dep and arr being
\* what iata_to_city_name gave for its two codes
BlockLines(seg, segment_counter, dep, arr) ==
    [lines |->
        << Line("Segment", segment_counter, <<>>),
           Line("From", 0, dep.ret \o <<" ", "(">> \o seg.departure.iataCode \o <<")">>),
           Line("Date", 0, FormatDate(seg.departure.at)),
           Line("Time", 0, FormatTime(seg.departure.at)),
           Line("To", 0, arr.ret \o <<" ", "(">> \o seg.arrival.iataCode \o <<")">>),
           Line("Date", 0, FormatDate(seg.arrival.at)),
           Line("Time", 0, FormatTime(seg.arrival.at)) >>,
     res |-> arr.res]

\* line 146: arr_city_name = iata_to_city_name(arr_code)
BlockAfterDeparture(seg, segment_counter, dep) ==
    BlockLines(seg, segment_counter, dep,
               iata_to_city_name(seg.arrival.iataCode, dep.res))

\* The body of the inner loop, lines 131-157, for one segment
SegmentBlock(seg, segment_counter, r) ==
    BlockAfterDeparture(seg, segment_counter,
                        iata_to_city_name(seg.departure.iataCode, r))

\* the lines of one part of the loops followed by those of the rest
Prepend(lines, rest) ==
    [lines |-> lines \o rest.lines, counter |-> rest.counter, res |-> rest.res]

\* for seg in segments
RECURSIVE ParseSegments(_, _, _)
RECURSIVE SegmentsAfter(_, _, _)
SegmentsAfter(blk, segments, segment_counter) ==
    Prepend(blk.lines, ParseSegments(segments, segment_counter + 1, blk.res))

ParseSegments(segments, segment_counter, r) ==
    IF segments = <<>>
    THEN [lines |-> <<>>, counter |-> segment_counter, res |-> r]
    ELSE SegmentsAfter(SegmentBlock(Head(segments), segment_counter, r),
                       Tail(segments), segment_counter)

\* for itinerary in itineraries
RECURSIVE ParseItineraries(_, _, _)
RECURSIVE ItinerariesAfter(_, _)
ItinerariesAfter(one, itineraries) ==
    Prepend(one.lines, ParseItineraries(itineraries, one.counter, one.res))

ParseItineraries(itineraries, segment_counter, r) ==
    IF itineraries = <<>>
    THEN [lines |-> <<>>, counter |-> segment_counter, res |-> r]
    ELSE ItinerariesAfter(
            ParseSegments(Head(itineraries).segments,
                          CounterAtItinerary(segment_counter), r),
            Tail(itineraries))

\* lines 118-123, 159: the text of an offer whose segments gave body
OfferText(offer, body) ==
    [text |-> << Line("Flight detail", 0, <<>>),
                 Line("Total Price (per adult)", 0, offer.price.total) >>
              \o body.lines,
     res |-> body.res]

\* parse_single_flight_offer(flight_offers) run on resolver state r: the
\* text returned and the resolver state afterwards
parse_single_flight_offer(flight_offers, r) ==
    IF flight_offers = <<>>
    THEN [text |-> NoFlightOffers, res |-> r]
    ELSE OfferText(flight_offers[1],
                   ParseItineraries(flight_offers[1].itineraries, 1, r))

\* The numbers of the "Segment N:" lines of a flight text, in order
RECURSIVE SegmentNumbers(_)
SegmentNumbers(text) ==
    IF text = <<>> THEN <<>>
    ELSE (IF Head(text).tag = "Segment" THEN <<Head(text).num>> ELSE <<>>)
            \o SegmentNumbers(Tail(text))

\* Segments of an offer, over all its itineraries
RECURSIVE TotalSegments(_)
TotalSegments(itineraries) ==
    IF itineraries = <<>> THEN 0
    ELSE Len(Head(itineraries).segments) + TotalSegments(Tail(itineraries))

(***************************************************************************)
(* LLM Gateway: ask_openai.                                                *)
(***************************************************************************)
\* Tokens of a text returned by the LLM
Ws == [t |-> "ws", w |-> " "]
Tick == [t |-> "tick", w |-> "backtick"]
Word(w) == [t |-> "word", w |-> w]
Json(v) == [t |-> "json", w |-> "json", v |-> v]

\* JSON values
JArray(elems) == [k |-> "array", elems |-> elems]
JObject(fields) == [k |-> "object", fields |-> fields]
JNumber == [k |-> "number"]
JString == [k |-> "string"]

\* What openai.ChatCompletion.create does: answer with a content, or raise
Answer(content) == [ok |-> TRUE, content |-> content]
Failure == [ok |-> FALSE, content |-> <<>>]

OpenAIError == <<Word("An error occurred while calling OpenAI API:"), Ws, Word("e")>>

ask_openai(reply) == IF reply.ok THEN reply.content ELSE OpenAIError

\* A text of the LLM as a sequence of strings
Render(text) == [i \in DOMAIN text |-> text[i].w]

(***************************************************************************)
(* Hotel Advisor: get_gpt_hotels, parse_gpt_hotels.                        *)
(***************************************************************************)
RECURSIVE LStripTok(_, _)
LStripTok(text, t) ==
    IF text # <<>> /\ Head(text).t = t THEN LStripTok(Tail(text), t) ELSE text

RECURSIVE RStripTok(_, _)
RStripTok(text, t) ==
    IF text # <<>> /\ text[Len(text)].t = t
    THEN RStripTok(SubSeq(text, 1, Len(text) - 1), t) ELSE text

StripTok(text, t) == RStripTok(LStripTok(text, t), t)

\* response.strip(), then the strip of backticks, then .strip() again
StripFences(response) == StripTok(StripTok(StripTok(response, "ws"), "tick"), "ws")

\* json.loads: the value when the text is one JSON value, possibly with
\* whitespace around it
JsonFails == [ok |-> FALSE, v |-> JNumber]
JsonValue(inner) ==
    IF Len(inner) = 1 /\ inner[1].t = "json"
    THEN [ok |-> TRUE, v |-> inner[1].v]
    ELSE JsonFails
json_loads(text) == JsonValue(StripTok(text, "ws"))

\* a check of the type without the check of the length
IsAnyList(hotel_list) == hotel_list.k = "array"

\* isinstance(hotel_list, list) and len(hotel_list) == 5
IsFiveList(hotel_list) ==
    hotel_list.k = "array" /\ Len(hotel_list.elems) = 5

\* lines 183-191, parsed being what json.loads gave
AcceptHotels(parsed) ==
    IF parsed.ok /\ IsFiveList(parsed.v) THEN parsed.v.elems ELSE <<>>

\* get_gpt_hotels, lines 179-191, on the text ask_openai returned
get_gpt_hotels(response) == AcceptHotels(json_loads(StripFences(response)))

\* h.get(key, default) of a JSON object
Get(h, key, default) == IF key \in DOMAIN h.fields THEN h.fields[key] ELSE default

UnknownHotel == <<"U","n","k","n","o","w","n"," ","H","o","t","e","l">>
NA == <<"N","/","A">>

\* One pass of the loop of parse_gpt_hotels, lines 209-224: h.get raises
\* AttributeError when h is not a JSON object
SummaryOf(i, h, description) ==
    << Line("Hotel Option #", i, <<>>),
       Line("Name", 0, Get(h, "name", UnknownHotel)),
       Line("Approx. Price/Night", 0, Get(h, "price", NA)),
       Line("Address", 0, Get(h, "address", NA)),
       Line("Description", 0, Render(description)) >>

\* A hotel entry on which h.get(...) works
HasGet(h) == h.k = "object"

\* lines 217-224: the summary of hotel i followed by those of the rest
WithSummary(summary, rest) ==
    [raised |-> rest.raised,
     summaries |-> summary \o rest.summaries,
     ncalls |-> 1 + rest.ncalls]

\* parse_gpt_hotels(hotels) where replies[i] is what the LLM does at the
\* i-th call of generate_hotel_description: whether it raised, the
\* summaries built and the number of LLM calls made
RECURSIVE ParseHotelsFrom(_, _, _)
ParseHotelsFrom(hotels, replies, i) ==
    IF i > Len(hotels)
    THEN [raised |-> FALSE, summaries |-> <<>>, ncalls |-> 0]
    ELSE IF ~HasGet(hotels[i])
    THEN [raised |-> TRUE, summaries |-> <<>>, ncalls |-> 0]
    ELSE WithSummary(SummaryOf(i, hotels[i], ask_openai(replies[i])),
                     ParseHotelsFrom(hotels, replies, i + 1))

parse_gpt_hotels(hotels, replies) == ParseHotelsFrom(hotels, replies, 1)

NoHotelsFound == <<Line("No hotels found by GPT or an error occurred.", 0, <<>>)>>

\* --- what the LLM answers to the hotel-candidates prompt ---
FullHotel(i) ==
    JObject([name |-> <<"H", Digits[(i % 10) + 1]>>,
             price |-> <<"1","2","0">>,
             address |-> <<Digits[(i % 10) + 1], " ", "S","t">>])
PartialHotel(i) == JObject([name |-> <<"H", Digits[(i % 10) + 1]>>])

Elem(kind, i) ==
    IF kind = "full" THEN FullHotel(i)
    ELSE IF kind = "partial" THEN PartialHotel(i)
    ELSE IF kind = "string" THEN JString
    ELSE JNumber

ElemKinds == {"full", "partial", "string", "number"}

\* arrays of 0..MaxArr entries of one kind, and arrays of five hotels whose
\* third entry is of another kind
HotelJson ==
    {JArray([i \in 1..n |-> Elem(kind, i)]) : n \in 0..MaxArr, kind \in ElemKinds}
    \cup {JArray([i \in 1..5 |-> IF i = 3 THEN Elem(kind, i) ELSE FullHotel(i)]) :
            kind \in ElemKinds}
    \cup {FullHotel(1), JNumber}

Fence(body, fence) ==
    IF fence = "plain" THEN <<body>>
    ELSE IF fence = "space" THEN <<Ws, body, Ws>>
    ELSE IF fence = "ticks" THEN <<Tick, Tick, Tick, Ws, body, Ws, Tick, Tick, Tick>>
    ELSE IF fence = "words" THEN <<Word("Here"), Ws, body>>
    ELSE <<Tick, Tick, Tick, Word("json"), Ws, body, Ws, Tick, Tick, Tick>>

Fences == {"plain", "space", "ticks", "ticks-json", "words"}

HotelReplies ==
    {Answer(Fence(Json(v), f)) : v \in HotelJson, f \in Fences}
    \cup {Answer(<<Word("Here"), Ws, Word("are"), Ws, Word("hotels")>>),
          Answer(<<>>), Failure}

\* the answers to the hotel-candidates prompt the wizard is run against: one
\* for every way through get_gpt_hotels and parse_gpt_hotels
WizardHotelReplies ==
    { Answer(Fence(Json(JArray([i \in 1..5 |-> FullHotel(i)])), "plain")),
      Answer(Fence(Json(JArray([i \in 1..5 |-> FullHotel(i)])), "ticks")),
      Answer(Fence(Json(JArray([i \in 1..5 |-> FullHotel(i)])), "ticks-json")),
      Answer(Fence(Json(JArray([i \in 1..4 |-> FullHotel(i)])), "plain")),
      Answer(Fence(Json(JArray([i \in 1..5 |-> PartialHotel(i)])), "plain")),
      Answer(Fence(Json(JArray([i \in 1..5 |-> JNumber])), "plain")),
      Answer(Fence(Json(JArray([i \in 1..5 |->
                IF i = 3 THEN JNumber ELSE FullHotel(i)])), "plain")),
      Answer(Fence(Json(FullHotel(1)), "plain")),
      Answer(<<Word("Here"), Ws, Word("are"), Ws, Word("hotels")>>),
      Failure }

\* what the LLM does at a call that asks for free text
TextReplies == {Answer(<<Word("Sure"), Ws, Word("text")>>), Answer(<<>>), Failure}

\* what the LLM does at the five description calls: it answers until it
\* starts failing at call number down
DescriptionReplies ==
    {[i \in 1..5 |-> IF i < down THEN Answer(<<Word("Cosy")>>) ELSE Failure] :
        down \in {3, 6}}

(***************************************************************************)
(* Dates: dateutil's parser.parse on the texts of the date entries, and    *)
(* the day difference of get_activities.                                   *)
(***************************************************************************)
IsDigit(c) == c \in Range(Digits)
DigitVal(c) == IndexIn(c, Digits) - 1

IsLeap(y) == (y % 4 = 0 /\ y % 100 # 0) \/ y % 400 = 0

DaysInMonth(y, m) ==
    IF m = 2 THEN (IF IsLeap(y) THEN 29 ELSE 28)
    ELSE IF m \in {4, 6, 9, 11} THEN 30 ELSE 31

RECURSIVE DaysBeforeMonth(_, _)
DaysBeforeMonth(y, m) ==
    IF m = 1 THEN 0 ELSE DaysInMonth(y, m - 1) + DaysBeforeMonth(y, m - 1)

DaysBeforeYear(y) ==
    ((y - 1) * 365) + ((y - 1) \div 4) - ((y - 1) \div 100) + ((y - 1) \div 400)

\* datetime.toordinal()
Ordinal(dt) == DaysBeforeYear(dt.y) + DaysBeforeMonth(dt.y, dt.m) + dt.d

\* parser.parse of a text written YYYY-MM-DD; anything else the date
\* entries hold in this model makes it raise
ParseFails == [ok |-> FALSE, y |-> 0, m |-> 0, d |-> 0]
ValidDate(y, m, d) ==
    IF y >= 1 /\ m \in 1..12 /\ d >= 1 /\ d <= DaysInMonth(y, m)
    THEN [ok |-> TRUE, y |-> y, m |-> m, d |-> d]
    ELSE ParseFails
parser_parse(str) ==
    IF /\ Len(str) = 10
       /\ str[5] = "-" /\ str[8] = "-"
       /\ \A i \in {1, 2, 3, 4, 6, 7, 9, 10} : IsDigit(str[i])
    THEN ValidDate((DigitVal(str[1]) * 1000) + (DigitVal(str[2]) * 100)
                        + (DigitVal(str[3]) * 10) + DigitVal(str[4]),
                   (DigitVal(str[6]) * 10) + DigitVal(str[7]),
                   (DigitVal(str[9]) * 10) + DigitVal(str[10]))
    ELSE ParseFails

\* a day count that leaves out the end day
TotalDaysExclusive(start_dt, end_dt) == Ordinal(end_dt) - Ordinal(start_dt)

\* total_days = (end_dt - start_dt).days + 1
TotalDays(start_dt, end_dt) == (Ordinal(end_dt) - Ordinal(start_dt)) + 1

\* float(budget_str) does not raise ValueError
IsFloat(str) == str # <<>> /\ \A i \in DOMAIN str : IsDigit(str[i])

(***************************************************************************)
(* What the user types and what the location service answers.              *)
(***************************************************************************)
TextInputs == {<<>>, <<" ">>, <<" ", "x">>}
WordInputs == {<<>>, <<"x">>}
StartDateInputs ==
    { <<>>,
      <<"2","0","2","4","-","0","6","-","0","1">>,
      <<" ","2","0","2","4","-","0","6","-","0","3">> }
EndDateInputs ==
    { <<>>,
      <<"2","0","2","4","-","0","6","-","0","1">>,
      <<"2","0","2","4","-","0","6","-","0","3">>,
      <<"2","0","2","3","-","0","2","-","2","9">> }
BudgetInputs == {<<>>, <<"1","5","0">>, <<"a","b","c">>}

LocationResponses ==
    { [status |-> "error", data |-> <<>>],
      [status |-> "ok", data |-> <<>>],
      [status |-> "ok", data |-> <<[iataCode |-> ORD]>>] }

None == <<>>

\* get_iata_code, lines 78-89, on what the location service did
get_iata_code(response) ==
    IF response.status = "error" THEN None
    ELSE IF response.data = <<>> THEN None
    ELSE response.data[1].iataCode

(***************************************************************************)
(* The wizard: TravelPlannerGUI.                                           *)
(***************************************************************************)
VARIABLES
    stage,              \* 1 input frame, 2 flight/hotel frame, 3 interests frame,
                        \* 4 summary frame: the frame on the screen
    departure_var, destination_var, start_date_var, end_date_var, budget_var,
    selected_hotel, user_interests, food_interests,
    single_flight_info, hotel_offers, hotel_summaries, activities_info,
    final_summary,
    iata_cache,         \* the module-level cache of iata_to_city_name
    db_gets,            \* upper-cased code -> number of airports_db.get calls
    returned,           \* upper-cased code -> values iata_to_city_name returned
    calls,              \* external calls issued by the latest event, in order
    messagebox,         \* error dialog shown by the latest event, "" if none
    raised              \* the latest event's handler ended in an exception

inputs == <<departure_var, destination_var, start_date_var, end_date_var,
            budget_var, selected_hotel, user_interests, food_interests>>
artifacts == <<single_flight_info, hotel_offers, hotel_summaries,
               activities_info, final_summary>>
resolver == <<iata_cache, db_gets, returned>>
vars == <<stage, inputs, artifacts, resolver, calls, messagebox, raised>>

Init ==
    /\ stage = 1
    /\ departure_var = <<>> /\ destination_var = <<>>
    /\ start_date_var = <<>> /\ end_date_var = <<>> /\ budget_var = <<>>
    /\ selected_hotel = <<>> /\ user_interests = <<>> /\ food_interests = <<>>
    /\ single_flight_info = <<>>
    /\ hotel_offers = <<>>
    /\ hotel_summaries = <<>>
    /\ activities_info = <<>>
    /\ final_summary = <<>>
    /\ iata_cache = << >> /\ db_gets = << >> /\ returned = << >>
    /\ calls = <<>> /\ messagebox = "" /\ raised = FALSE

\* what an event leaves behind besides the program's state
Event(c, m, r) == calls' = c /\ messagebox' = m /\ raised' = r

\* messagebox.showerror(...); return
ShowError(m) ==
    /\ Event(<<>>, m, FALSE)
    /\ UNCHANGED <<stage, inputs, artifacts, resolver>>

\* --- the user types into an entry of the frame on the screen ---
Typing == Event(<<>>, "", FALSE) /\ UNCHANGED <<stage, artifacts, resolver>>

EditDeparture ==
    /\ stage = 1
    /\ \E v \in WordInputs : departure_var' = v
    /\ Typing
    /\ UNCHANGED <<destination_var, start_date_var, end_date_var, budget_var,
                   selected_hotel, user_interests, food_interests>>

EditDestination ==
    /\ stage = 1
    /\ \E v \in WordInputs : destination_var' = v
    /\ Typing
    /\ UNCHANGED <<departure_var, start_date_var, end_date_var, budget_var,
                   selected_hotel, user_interests, food_interests>>

EditStartDate ==
    /\ stage = 1
    /\ \E v \in StartDateInputs : start_date_var' = v
    /\ Typing
    /\ UNCHANGED <<departure_var, destination_var, end_date_var, budget_var,
                   selected_hotel, user_interests, food_interests>>

EditEndDate ==
    /\ stage = 1
    /\ \E v \in EndDateInputs : end_date_var' = v
    /\ Typing
    /\ UNCHANGED <<departure_var, destination_var, start_date_var, budget_var,
                   selected_hotel, user_interests, food_interests>>

EditBudget ==
    /\ stage = 1
    /\ \E v \in BudgetInputs : budget_var' = v
    /\ Typing
    /\ UNCHANGED <<departure_var, destination_var, start_date_var, end_date_var,
                   selected_hotel, user_interests, food_interests>>

EditSelectedHotel ==
    /\ stage = 2
    /\ \E v \in TextInputs : selected_hotel' = v
    /\ Typing
    /\ UNCHANGED <<departure_var, destination_var, start_date_var, end_date_var,
                   budget_var, user_interests, food_interests>>

EditInterests ==
    /\ stage = 3
    /\ \E v \in WordInputs : user_interests' = v
    /\ Typing
    /\ UNCHANGED <<departure_var, destination_var, start_date_var, end_date_var,
                   budget_var, selected_hotel, food_interests>>

EditFood ==
    /\ stage = 3
    /\ \E v \in WordInputs : food_interests' = v
    /\ Typing
    /\ UNCHANGED <<departure_var, destination_var, start_date_var, end_date_var,
                   budget_var, selected_hotel, user_interests>>

\* the answers of the flight service the wizard is run against
WizardFlightResponses ==
    { FlightError, FlightNone,
      [status |-> "ok", data |-> <<OfferOf(<<2, 1>>, 1)>>],
      [status |-> "ok", data |-> <<OfferOf(<<1>>, 4)>>] }

\* One external call in the log of an event: the service, what it was
\* asked for, what it did, and the trip length stated in the prompt
Call(svc, what, reply, days) ==
    [svc |-> svc, what |-> what, reply |-> reply, days |-> days]

\* --- frames ---
create_flight_hotel_frame == stage' = 2

\* a Next button that brings the input frame back
create_input_frame_again == stage' = 1

create_interests_frame == stage' = 3

\* create_final_summary_frame: the summary is asked of the LLM while the
\* frame is built
create_final_summary_frame(reply) ==
    /\ stage' = 4
    /\ final_summary' = ask_openai(reply)

\* --- stage 1: the Submit button ---
\* lines 326-333: a non-empty budget that float() rejects
BudgetInvalid(budget_str) == budget_str # <<>> /\ ~IsFloat(budget_str)

\* line 335
TripFieldMissing(departure_city, destination_city, start_date, end_date) ==
    \/ departure_city = <<>> \/ destination_city = <<>>
    \/ start_date = <<>> \/ end_date = <<>>

\* a handler that does not look at the result of the lookup
NeverUnresolved(iata) == FALSE

\* lines 341, 344: "not origin_iata", "not dest_iata"
Unresolved(iata) == iata = None

\* lines 358-362: the hotels are described, the frame is replaced
Stage1Described(log, replies, parsed_hotels) ==
    IF parsed_hotels.raised
    THEN \* AttributeError leaves the handler
         /\ UNCHANGED <<hotel_summaries, stage>>
         /\ Event(log \o [i \in 1..parsed_hotels.ncalls |->
                            Call("llm", "description", replies[i], 0)], "", TRUE)
    ELSE /\ hotel_summaries' = parsed_hotels.summaries
         /\ create_flight_hotel_frame
         /\ Event(log \o [i \in 1..parsed_hotels.ncalls |->
                            Call("llm", "description", replies[i], 0)], "", FALSE)

\* lines 350-362: the flight text and the hotel list are stored
Stage1Fetched(log, parsed, hotels) ==
    /\ single_flight_info' = parsed.text
    /\ iata_cache' = parsed.res.cache
    /\ db_gets' = parsed.res.gets
    /\ returned' = parsed.res.rets
    /\ hotel_offers' = hotels
    /\ UNCHANGED <<inputs, activities_info, final_summary>>
    /\ IF Len(hotels) = 0
       THEN /\ hotel_summaries' = NoHotelsFound
            /\ create_flight_hotel_frame
            /\ Event(log, "", FALSE)
       ELSE \E replies \in DescriptionReplies :
                Stage1Described(log, replies, parse_gpt_hotels(hotels, replies))

\* lines 341-353: the codes are checked, the flight and the hotels fetched
Stage1Resolved(lookups, origin_iata, dest_iata) ==
    IF Unresolved(origin_iata)
    THEN /\ Event(lookups, "Could not find IATA code for departure", FALSE)
         /\ UNCHANGED <<stage, inputs, artifacts, resolver>>
    ELSE IF Unresolved(dest_iata)
    THEN /\ Event(lookups, "Could not find IATA code for destination", FALSE)
         /\ UNCHANGED <<stage, inputs, artifacts, resolver>>
    ELSE \E flight_resp \in WizardFlightResponses,
            hotel_reply \in WizardHotelReplies :
            Stage1Fetched(
                lookups \o << Call("flight", "offers", flight_resp, 0),
                              Call("llm", "hotels", hotel_reply, 0) >>,
                parse_single_flight_offer(get_flights(flight_resp),
                    [cache |-> iata_cache, gets |-> db_gets, rets |-> returned]),
                get_gpt_hotels(ask_openai(hotel_reply)))

handle_travel_info ==
    /\ stage = 1
    /\ IF BudgetInvalid(Strip(budget_var))
       THEN ShowError("Hotel budget must be a number.")
       ELSE IF TripFieldMissing(Strip(departure_var), Strip(destination_var),
                                Strip(start_date_var), Strip(end_date_var))
       THEN ShowError("Please fill in departure, destination, and start/end dates.")
       ELSE \E dep_resp \in LocationResponses, dest_resp \in LocationResponses :
                Stage1Resolved(<< Call("location", "departure", dep_resp, 0),
                                  Call("location", "destination", dest_resp, 0) >>,
                               get_iata_code(dep_resp), get_iata_code(dest_resp))

\* --- stage 2: the Next button ---
\* a handler that does not look at the choice
NeverMissing(chosen) == FALSE

\* line 427: "not chosen"
HotelChoiceMissing(chosen) == chosen = <<>>

handle_hotel_choice ==
    /\ stage = 2
    /\ LET chosen == Strip(selected_hotel)
       IN  IF HotelChoiceMissing(chosen)
           THEN ShowError("Please enter the hotel you wish to choose.")
           ELSE /\ create_interests_frame
                /\ Event(<<>>, "", FALSE)
                /\ UNCHANGED <<inputs, artifacts, resolver>>

\* --- stage 3: the Show Activities button ---
\* line 478
TripTooShort(total_days) == total_days < 1

\* lines 485-497: the itinerary is asked for, the summary frame built
Stage3Planned(total_days) ==
    \E itinerary_reply \in TextReplies, summary_reply \in TextReplies :
        /\ activities_info' = ask_openai(itinerary_reply)
        /\ create_final_summary_frame(summary_reply)
        /\ Event(<< Call("llm", "itinerary", itinerary_reply, total_days),
                    Call("llm", "summary", summary_reply, 0) >>, "", FALSE)
        /\ UNCHANGED <<inputs, single_flight_info, hotel_offers,
                       hotel_summaries, resolver>>

\* lines 474-483: the dates are parsed and the length of the trip checked
Stage3Dated(start_dt, end_dt) ==
    IF ~start_dt.ok \/ ~end_dt.ok
    THEN ShowError("Could not parse dates")
    ELSE IF TripTooShort(TotalDays(start_dt, end_dt))
    THEN ShowError("Your end date must be after your start date.")
    ELSE Stage3Planned(TotalDays(start_dt, end_dt))

get_activities ==
    /\ stage = 3
    /\ IF Strip(user_interests) = <<>> \/ Strip(food_interests) = <<>>
       THEN ShowError("Please enter your interests and food preferences.")
       ELSE Stage3Dated(parser_parse(Strip(start_date_var)),
                        parser_parse(Strip(end_date_var)))

Next ==
    \/ EditDeparture \/ EditDestination \/ EditStartDate \/ EditEndDate
    \/ EditBudget \/ EditSelectedHotel \/ EditInterests \/ EditFood
    \/ handle_travel_info
    \/ handle_hotel_choice
    \/ get_activities

Spec == Init /\ [][Next]_vars

(***************************************************************************)
(* The formatter and the resolver on their own: parse_single_flight_offer  *)
(* applied, call after call in one process, to what get_flights returns.   *)
(***************************************************************************)
FormatOfferStored(flight_resp, parsed) ==
    /\ single_flight_info' = parsed.text
    /\ iata_cache' = parsed.res.cache
    /\ db_gets' = parsed.res.gets
    /\ returned' = parsed.res.rets
    /\ Event(<<Call("flight", "offers", flight_resp, 0)>>, "", FALSE)
    /\ UNCHANGED <<stage, inputs, hotel_offers, hotel_summaries,
                   activities_info, final_summary>>

FormatOffer ==
    \E flight_resp \in FlightResponses :
        FormatOfferStored(flight_resp,
            parse_single_flight_offer(get_flights(flight_resp),
                [cache |-> iata_cache, gets |-> db_gets, rets |-> returned]))

SpecFlights == Init /\ [][FormatOffer]_vars

(***************************************************************************)
(* The hotel-candidates request on its own: get_gpt_hotels applied to      *)
(* what the LLM answers.                                                   *)
(***************************************************************************)
FetchCandidates ==
    \E hotel_reply \in HotelReplies :
        /\ hotel_offers' = get_gpt_hotels(ask_openai(hotel_reply))
        /\ Event(<<Call("llm", "hotels", hotel_reply, 0)>>, "", FALSE)
        /\ UNCHANGED <<stage, inputs, single_flight_info, hotel_summaries,
                       activities_info, final_summary, resolver>>

SpecHotels == Init /\ [][FetchCandidates]_vars

(***************************************************************************)
(* Properties.                                                             *)
(***************************************************************************)
\* a text made of spaces only, the empty text included
Blank(str) == \A i \in DOMAIN str : str[i] = " "

\* the entries of the latest event's log for one service and request
Logged(svc, what) ==
    {i \in DOMAIN calls : calls[i].svc = svc /\ calls[i].what = what}

\* C1: the stage never decreases, whatever is submitted and whatever the
\* services answer: no step returns to a stage that has been left, and no
\* step leaves the final-summary stage.
C1_StageNeverDecreases ==
    [][/\ stage' \in 1..4
       /\ stage' >= stage
       /\ (stage = 4 => stage' = 4)]_vars

\* the final summary is on the screen, with the artifacts of all stages
C1_Witness ==
    /\ stage = 4
    /\ single_flight_info # <<>>
    /\ hotel_summaries # <<>>
    /\ Logged("llm", "summary") # {}

\* C2: an artifact that has been assigned is never assigned again and never
\* changes, also when a stage is submitted again after its handler failed.
C2_ArtifactsAssignedOnce ==
    [][/\ (single_flight_info # <<>> => single_flight_info' = single_flight_info)
       /\ (hotel_summaries # <<>> => hotel_summaries' = hotel_summaries)
       /\ (activities_info # <<>> => activities_info' = activities_info)
       /\ (final_summary # <<>> => final_summary' = final_summary)]_vars

\* the input a stage's handler rejects, as the handler reads it
C3_Stage1Invalid ==
    /\ stage = 1
    /\ \/ Blank(departure_var) \/ Blank(destination_var)
       \/ Blank(start_date_var) \/ Blank(end_date_var)
       \/ (~Blank(budget_var) /\ ~IsFloat(Strip(budget_var)))
C3_Stage2Invalid == stage = 2 /\ Blank(selected_hotel)
C3_Stage3Invalid ==
    /\ stage = 3
    /\ LET start_dt == parser_parse(Strip(start_date_var))
           end_dt == parser_parse(Strip(end_date_var))
       IN  \/ Blank(user_interests) \/ Blank(food_interests)
           \/ ~start_dt.ok \/ ~end_dt.ok
           \/ (Ordinal(end_dt) - Ordinal(start_dt)) + 1 < 1

\* C3: while the input of the stage on the screen is invalid, no step
\* advances the wizard or changes the flight text, the hotel list, the hotel
\* text, the itinerary text or the final summary; and an error dialog is
\* only ever shown by a step that leaves all of them as they were.
C3_ValidationErrorChangesNothing ==
    [][((C3_Stage1Invalid \/ C3_Stage2Invalid \/ C3_Stage3Invalid)
            \/ messagebox' \in {"Hotel budget must be a number.",
                  "Please fill in departure, destination, and start/end dates.",
                  "Please enter the hotel you wish to choose.",
                  "Please enter your interests and food preferences.",
                  "Could not parse dates",
                  "Your end date must be after your start date."})
        => (stage' = stage /\ artifacts' = artifacts)]_vars

\* a rejected itinerary submission, with the artifacts of stage 1 in place
C3_Witness ==
    /\ stage = 3
    /\ messagebox = "Could not parse dates"
    /\ single_flight_info # <<>>
    /\ hotel_summaries # <<>>

\* the lookup logged at position i found no code
C4_Absent(log, i) ==
    /\ log[i].svc = "location"
    /\ (log[i].reply.status = "error" \/ log[i].reply.data = <<>>)

\* C4: a stage-1 submission in which the lookup of the departure or of the
\* destination found no code shows an error, issues no flight search and no
\* LLM call, stays on stage 1 and keeps the flight text and the hotel text.
C4_UnresolvedCodeAborts ==
    [][(\E i \in DOMAIN calls' : C4_Absent(calls', i))
        => /\ \A i \in DOMAIN calls' : calls'[i].svc = "location"
           /\ messagebox' \in {"Could not find IATA code for departure",
                               "Could not find IATA code for destination"}
           /\ stage' = 1 /\ stage = 1
           /\ single_flight_info' = single_flight_info
           /\ hotel_summaries' = hotel_summaries]_vars

\* the departure resolved, the destination did not, after an earlier
\* submission had set the flight text
C4_Witness ==
    /\ messagebox = "Could not find IATA code for destination"
    /\ Len(calls) = 2
    /\ ~C4_Absent(calls, 1) /\ C4_Absent(calls, 2)
    /\ stage = 1

\* C5: a failure of the flight service makes the flight text the "no
\* offers" message and stage 1 advances; a failure of the LLM at the
\* itinerary or the summary call is stored as that artifact and the wizard
\* is on the final stage; no handler ends in an exception.
C5_ServiceFailureNeverBlocks ==
    /\ \A i \in Logged("flight", "offers") :
          (calls[i].reply.status = "error" \/ calls[i].reply.data = <<>>)
            => (single_flight_info = NoFlightOffers /\ stage = 2 /\ ~raised)
    /\ \A i \in Logged("llm", "itinerary") :
          ~calls[i].reply.ok => (activities_info = OpenAIError /\ stage = 4)
    /\ \A i \in Logged("llm", "summary") :
          ~calls[i].reply.ok => (final_summary = OpenAIError /\ stage = 4)

\* C6: once the hotel-candidates request has been answered, whatever the
\* answer, the handler has not raised, the wizard is on stage 2 and the
\* hotel text is set.
C6_HotelReplyNeverBlocks ==
    Logged("llm", "hotels") # {}
        => (~raised /\ stage = 2 /\ hotel_summaries # <<>>)

\* the tokens of a text other than whitespace and backticks
C7_Payload(text) == SelectSeq(text, LAMBDA tok : tok.t \notin {"ws", "tick"})
\* a text that is one JSON value
C7_IsJson(text) == Len(C7_Payload(text)) = 1 /\ C7_Payload(text)[1].t = "json"

\* C7: get_gpt_hotels returns the empty list or a list of five entries; it
\* returns the empty list for a text that is not JSON, the gateway's error
\* text included, for a JSON array of a length other than 5 and for a JSON
\* value that is not an array.
C7_FiveOrNothing ==
    \A i \in Logged("llm", "hotels") :
        LET text == ask_openai(calls[i].reply)
        IN  /\ Len(hotel_offers) \in {0, 5}
            /\ ~calls[i].reply.ok => Len(hotel_offers) = 0
            /\ ~C7_IsJson(text) => Len(hotel_offers) = 0
            /\ C7_IsJson(text) =>
                 LET v == C7_Payload(text)[1].v
                 IN  /\ v.k # "array" => Len(hotel_offers) = 0
                     /\ (v.k = "array" /\ Len(v.elems) # 5) => Len(hotel_offers) = 0
            /\ ~raised

\* five entries came back from an answer wrapped in backticks
C7_Witness ==
    /\ Len(hotel_offers) = 5
    /\ \E i \in Logged("llm", "hotels") :
          /\ calls[i].reply.ok
          /\ Len(calls[i].reply.content) > 1
          /\ calls[i].reply.content[1].t = "tick"

\* the dates of the trip, as the itinerary stage parses them
C8_Start == parser_parse(Strip(start_date_var))
C8_End == parser_parse(Strip(end_date_var))
C8_Days == (Ordinal(C8_End) - Ordinal(C8_Start)) + 1
C8_Complete ==
    /\ ~Blank(user_interests) /\ ~Blank(food_interests)
    /\ C8_Start.ok /\ C8_End.ok

\* C8: the itinerary stage states the trip length (end - start) + 1 in its
\* prompt, 3 for 2024-06-01 to 2024-06-03; a submission with parsable dates
\* is rejected exactly when that length is below 1: a trip whose end is
\* before its start shows the error, issues no call and does not advance,
\* and no other trip is ever shown an error.
C8_TripLength ==
    /\ [](/\ \A i \in Logged("llm", "itinerary") :
                /\ calls[i].days = C8_Days
                /\ calls[i].days >= 1
                /\ stage = 4
                /\ (/\ C8_Start = [ok |-> TRUE, y |-> 2024, m |-> 6, d |-> 1]
                    /\ C8_End = [ok |-> TRUE, y |-> 2024, m |-> 6, d |-> 3])
                      => calls[i].days = 3
          /\ messagebox = "Your end date must be after your start date."
                => (stage = 3 /\ calls = <<>> /\ C8_Days < 1)
          /\ stage = 4 => (C8_Start.ok /\ C8_End.ok /\ C8_Days >= 1))
    /\ [][(stage = 3 /\ C8_Complete)
            => IF C8_Days < 1
               THEN stage' = 3 /\ calls' = <<>> /\ UNCHANGED artifacts
               ELSE messagebox' = ""]_vars

\* a same-day trip has been accepted with the length 1
C8_Witness ==
    /\ stage = 4
    /\ C8_Start = C8_End
    /\ \E i \in Logged("llm", "itinerary") : calls[i].days = 1

\* C9: the "Segment N:" lines of a formatted offer are numbered 1, 2, ..., n
\* in order, n being the number of segments over all itineraries of the
\* offer; without an offer the text is the "no offers" message.
C9_SegmentsNumberedAcrossOffer ==
    \A i \in Logged("flight", "offers") :
        LET flight_offers == get_flights(calls[i].reply)
        IN  IF flight_offers = <<>>
            THEN single_flight_info = NoFlightOffers
            ELSE LET n == TotalSegments(flight_offers[1].itineraries)
                 IN  /\ Len(SegmentNumbers(single_flight_info)) = n
                     /\ \A j \in 1..n : SegmentNumbers(single_flight_info)[j] = j

\* an outbound itinerary of 2 segments and a return of 1 gave 1, 2, 3
C9_Witness ==
    /\ SegmentNumbers(single_flight_info) = <<1, 2, 3>>
    /\ \E i \in Logged("flight", "offers") :
          /\ Len(calls[i].reply.data) = 1
          /\ Len(calls[i].reply.data[1].itineraries) = 2
          /\ Len(calls[i].reply.data[1].itineraries[1].segments) = 2
          /\ Len(calls[i].reply.data[1].itineraries[2].segments) = 1

\* C10: the cache is keyed by upper-cased codes; calls whose codes are equal
\* ignoring case have all returned one value; the dataset has been consulted
\* at most once per upper-cased code; and an entry of the cache is never
\* changed or removed.
C10_MemoizedByUpperCode ==
    /\ [](/\ \A k \in DOMAIN iata_cache : k = Upper(k)
          /\ \A k \in DOMAIN returned : Cardinality(returned[k]) = 1
          /\ \A k \in DOMAIN db_gets : db_gets[k] <= 1)
    /\ [][\A k \in DOMAIN iata_cache :
            k \in DOMAIN iata_cache' /\ iata_cache'[k] = iata_cache[k]]_vars

\* one offer named Chicago by "ORD" and by "ord", with one consultation
C10_Witness ==
    /\ ORD \in DOMAIN db_gets /\ db_gets[ORD] = 1
    /\ \E i, j \in DOMAIN single_flight_info :
          /\ single_flight_info[i].str =
                airports_db[ORD].city \o <<" ", "(", "O", "R", "D", ")">>
          /\ single_flight_info[j].str =
                airports_db[ORD].city \o <<" ", "(", "o", "r", "d", ")">>

\* C11: for a code that has no record in the dataset, iata_to_city_name
\* returns the upper-cased code itself, on the first call and on every
\* cached call: the values returned so far for such a code are the code.
C11_UnknownCodeReturnsItself ==
    \A k \in DOMAIN returned :
        k \notin DOMAIN airports_db => returned[k] = {k}

\* the dates of the trip are ones the itinerary stage rejects: one of them
\* does not parse, or the end is before the start
C12_DatesRejected ==
    LET start_dt == parser_parse(Strip(start_date_var))
        end_dt == parser_parse(Strip(end_date_var))
    IN  \/ ~start_dt.ok \/ ~end_dt.ok
        \/ (Ordinal(end_dt) - Ordinal(start_dt)) + 1 < 1

\* the fields of stage 1 are filled in and the budget, if given, is a number
C12_Stage1Filled ==
    /\ ~Blank(departure_var) /\ ~Blank(destination_var)
    /\ ~Blank(start_date_var) /\ ~Blank(end_date_var)
    /\ (Blank(budget_var) \/ IsFloat(Strip(budget_var)))

\* the log of a stage-1 submission both of whose lookups found a code
C12_Resolved(log) ==
    /\ Len(log) >= 2
    /\ log[1].svc = "location" /\ ~C4_Absent(log, 1)
    /\ log[2].svc = "location" /\ ~C4_Absent(log, 2)

\* a submission of stage 1 with rejected dates goes through
C12_PassesStage1 ==
    (/\ stage = 1 /\ C12_Stage1Filled /\ C12_DatesRejected
     /\ C12_Resolved(calls'))
        => /\ \E i \in DOMAIN calls' :
                calls'[i].svc = "flight" /\ calls'[i].what = "offers"
           /\ \E i \in DOMAIN calls' :
                calls'[i].svc = "llm" /\ calls'[i].what = "hotels"
           /\ messagebox' = ""
           /\ stage' = 2

\* stage 2 turns away a blank hotel choice and nothing else
C12_PassesStage2 ==
    (stage = 2 /\ messagebox' # "")
        => (Blank(selected_hotel) /\ stage' = 2)

\* past stage 1 the dates stay as they are, and while they are rejected no
\* step issues a call, sets the itinerary or the summary, or reaches the
\* final stage
C12_StaysOnInterests ==
    stage >= 2
        => /\ start_date_var' = start_date_var
           /\ end_date_var' = end_date_var
           /\ C12_DatesRejected
                => /\ stage' \in {2, 3}
                   /\ calls' = <<>>
                   /\ activities_info' = <<>>
                   /\ final_summary' = <<>>

\* C12: stage 1 does not check the date range.  A stage-1 submission whose
\* dates do not parse, or whose end is before its start, issues the flight
\* search and the hotel-candidates call and moves to stage 2; stage 2 lets
\* it through; the dates cannot change afterwards, so every itinerary
\* submission of the session is rejected and the final summary is never
\* reached.
C12_BadDatesStickAtInterests ==
    /\ [][C12_PassesStage1]_vars
    /\ [][C12_PassesStage2]_vars
    /\ [][C12_StaysOnInterests]_vars
    /\ [](stage = 4 => ~C12_DatesRejected)

====
